---- MODULE Spec2Model ----
(***************************************************************************)
(* Model of server/src/server.js of mern-docker-starter: an express        *)
(* server whose start-up script opens a mongoose connection, retries it    *)
(* five seconds after every 'error' event, seeds one User record and       *)
(* serves GET /welcome from the first record of the User collection.       *)
(*                                                                         *)
(* The process is a Node event loop: the top-level script runs to its end  *)
(* without interruption (Startup), and afterwards one callback runs at a   *)
(* time (an event listener, a timer, a promise continuation).  mongoose,   *)
(* express and the MongoDB store are the environment: they emit the        *)
(* events and settle the promises the script's callbacks react to.         *)
(***************************************************************************)
EXTENDS Integers, Sequences, FiniteSets, TLC

\* ---------------------------------------------------------------- bounds
MaxStarts == 2        \* process starts against the same persistent store
MaxErrors == 2        \* 'error' events the environment emits per process run
MaxRequests == 2      \* GET /welcome requests sent by clients
MaxInitRecords == 1   \* records the store holds before the first start
TickMs == 2500        \* granularity of the passage of time, in ms

\* ------------------------------------------------------ program constants
RetryDelayMs == 5000  \* setTimeout(() => conn(), 5000)
StatusOk == 200       \* res.send without res.status: express answers 200
DefaultPort == 4000   \* process.env.PORT || 4000
DefaultMongoUri == "mongodb://localhost:27017/test"

\* A variable of the process environment: unset (undefined in process.env) or
\* set to a string, which may be empty.
Unset == [set |-> FALSE, value |-> ""]
EnvSet(v) == [set |-> TRUE, value |-> v]
PortSettings == {Unset, EnvSet(""), EnvSet("8080")}
MongoUriSettings == {Unset, EnvSet(""), EnvSet("mongodb://db:27017/db")}

SeedName == "Big Bill Brown"
OtherName == "Ada Lovelace"
Names == {SeedName, OtherName}
GreetingPrefix == "Hello Client! There is one record in the database for "

ReqIds == 1..MaxRequests

VARIABLES
  running,        \* the node process is alive
  starts,         \* number of process starts so far
  storeReachable, \* environment: the store accepts connections
  store,          \* persisted User documents (their name), in insertion order
  connState,      \* readyState of mongoose.connection
  errorArmed,     \* db.on("error", ...) is registered
  openArmed,      \* db.once("open", ...) is registered and has not run yet
  timers,         \* pending setTimeout callbacks: [delay, elapsed] in ms
  attempts,       \* calls of conn() in this process run
  errorEvents,    \* 'error' events emitted in this process run
  openSignals,    \* 'open' events emitted in this process run
  connectedLogs,  \* "Successfully connected to mongo" lines logged
  retryLogs,      \* "Trying again" lines logged
  listenState,    \* "closed", "binding" (app.listen called), "listening"
  seedState,      \* user.save(): "none", "pending", "saved", "failed"
  requests,       \* per request: handler position, query result and response
  savedLogs,      \* "... saved to the database" lines logged, over all runs
  env,            \* process.env: the settings of PORT and MONGO_URI
  port,           \* const port, as the decimal text app.listen is given
  mongoUri,       \* const mongoUri
  lastUri,        \* descriptor given to the latest mongoose.connect call
  signalled,      \* a shutdown signal was delivered to this run and ignored
  App             \* the client component: state.welcome and its GET /welcome

vars == <<running, starts, storeReachable, store, connState, errorArmed,
          openArmed, timers, attempts, errorEvents, openSignals,
          connectedLogs, retryLogs, listenState, seedState, requests,
          savedLogs, env, port, mongoUri, lastUri, signalled, App>>

connVars == <<connState, errorArmed, openArmed, timers, attempts, errorEvents,
              openSignals, connectedLogs, retryLogs>>

extraVars == <<savedLogs, env, port, mongoUri, lastUri, signalled, App>>

Min(a, b) == IF a < b THEN a ELSE b

RECURSIVE SeqsUpTo(_, _)
SeqsUpTo(S, n) ==
  IF n = 0 THEN {<<>>}
  ELSE LET shorter == SeqsUpTo(S, n - 1)
       IN shorter \cup {Append(s, x) : s \in {t \in shorter : Len(t) = n - 1}, x \in S}

RemoveAt(s, i) == [j \in 1..(Len(s) - 1) |-> IF j < i THEN s[j] ELSE s[j + 1]]

NoResponse == [status |-> 0, body |-> ""]
\* class App extends Component { state = { welcome: "..." }; ... }
\* get: the promise of axios.get("/welcome"); req: the request of the server
\* that carries it (0: none); logged: what console.log was last given.
InitialWelcome == "..."

NewApp ==
  [welcome |-> InitialWelcome, get |-> "unmounted", req |-> 0, logged |-> "nothing"]

\* A request as this process run sees it.  state: position of the handler;
\* early: the query is waiting since before the first 'open' of this run;
\* err: what rejected the handler's promise; res: what res.send sent.
IdleRequest ==
  [state |-> "idle", early |-> FALSE, err |-> "none", res |-> NoResponse]

TypeOK ==
  /\ running \in BOOLEAN
  /\ starts \in 0..MaxStarts
  /\ storeReachable \in BOOLEAN
  /\ store \in Seq(Names)
  /\ connState \in {"DISCONNECTED", "CONNECTING", "CONNECTED"}
  /\ errorArmed \in BOOLEAN
  /\ openArmed \in BOOLEAN
  /\ timers \in Seq([delay : {RetryDelayMs}, elapsed : 0..RetryDelayMs])
  /\ \A i \in 1..Len(timers) : timers[i].elapsed <= timers[i].delay
  /\ attempts \in Nat
  /\ errorEvents \in 0..MaxErrors
  /\ openSignals \in Nat
  /\ connectedLogs \in Nat
  /\ retryLogs \in Nat
  /\ listenState \in {"closed", "binding", "listening"}
  /\ seedState \in {"none", "pending", "saved", "failed"}
  /\ \A r \in ReqIds :
       /\ requests[r].state \in {"idle", "querying", "responded", "fault"}
       /\ requests[r].early \in BOOLEAN
       /\ requests[r].err \in {"none", "TypeError", "QueryError"}
       /\ requests[r].res.status \in {0, StatusOk}
  /\ savedLogs \in 0..MaxStarts
  /\ env \in [PORT : PortSettings, MONGO_URI : MongoUriSettings]
  /\ port \in {"", "4000", "8080"}
  /\ mongoUri \in {"", DefaultMongoUri, "mongodb://db:27017/db"}
  /\ lastUri \in {"", DefaultMongoUri, "mongodb://db:27017/db"}
  /\ signalled \in BOOLEAN
  /\ App.welcome \in {InitialWelcome} \cup {GreetingPrefix \o n : n \in Names}
  /\ App.get \in {"unmounted", "pending", "resolved", "rejected"}
  /\ App.req \in {0} \cup ReqIds
  /\ App.logged \in {"nothing", "res", "error"}

\* The process has not been started; the store holds the records something
\* else left in it (the process itself only ever writes SeedName).
InitWith(settings) ==
  /\ env \in settings
  /\ running = FALSE
  /\ starts = 0
  /\ storeReachable \in BOOLEAN
  /\ store \in SeqsUpTo({OtherName}, MaxInitRecords)
  /\ connState = "DISCONNECTED"
  /\ errorArmed = FALSE
  /\ openArmed = FALSE
  /\ timers = <<>>
  /\ attempts = 0
  /\ errorEvents = 0
  /\ openSignals = 0
  /\ connectedLogs = 0
  /\ retryLogs = 0
  /\ listenState = "closed"
  /\ seedState = "none"
  /\ requests = [r \in ReqIds |-> IdleRequest]
  /\ savedLogs = 0
  /\ port = ""
  /\ mongoUri = ""
  /\ lastUri = ""
  /\ signalled = FALSE
  /\ App = NewApp

\* A bare "node server.js": neither PORT nor MONGO_URI is set.
Init == InitWith({[PORT |-> Unset, MONGO_URI |-> Unset]})

\* Every setting of the two variables.
InitAnyEnv == InitWith([PORT : PortSettings, MONGO_URI : MongoUriSettings])

\* ------------------------------------------------------------ supervisor

\* Variant of conn: connects to the built-in address, not to mongoUri.
connDefaultUri ==
  /\ attempts' = attempts + 1
  /\ connState' = IF connState = "DISCONNECTED" THEN "CONNECTING" ELSE connState
  /\ lastUri' = DefaultMongoUri

\* const conn = () => { mongoose.connect(mongoUri, options); }
\* mongoose starts opening a connection that is closed, and returns the
\* connection it already has otherwise.
conn ==
  /\ attempts' = attempts + 1
  /\ connState' = IF connState = "DISCONNECTED" THEN "CONNECTING" ELSE connState
  /\ lastUri' = mongoUri'

\* Variant of OnError: the retry is scheduled with no delay.
OnErrorNoDelay ==
  /\ retryLogs' = retryLogs + 1
  /\ timers' = Append(timers, [delay |-> 0, elapsed |-> 0])
  /\ running' = running
  /\ errorArmed' = errorArmed

\* Variant of OnError: gives up after the first retry.
OnErrorMaxRetries ==
  /\ retryLogs' = retryLogs + 1
  /\ timers' = IF retryLogs < 1
                THEN Append(timers, [delay |-> RetryDelayMs, elapsed |-> 0])
                ELSE timers
  /\ running' = running
  /\ errorArmed' = errorArmed

\* Variant of OnError: logs the failure and arms no timer.
OnErrorNoRetry ==
  /\ retryLogs' = retryLogs + 1
  /\ timers' = timers
  /\ running' = running
  /\ errorArmed' = errorArmed

\* Variant of OnError: a connection failure ends the process.
OnErrorFatal ==
  /\ retryLogs' = retryLogs + 1
  /\ timers' = timers
  /\ running' = FALSE
  /\ errorArmed' = errorArmed

\* Variant of OnError: registered with once, the listener is removed.
OnErrorOnce ==
  /\ retryLogs' = retryLogs + 1
  /\ timers' = Append(timers, [delay |-> RetryDelayMs, elapsed |-> 0])
  /\ running' = running
  /\ errorArmed' = FALSE

\* Variant of OnError: two retries are scheduled for one failure.
OnErrorTwice ==
  /\ retryLogs' = retryLogs + 1
  /\ timers' = timers \o <<[delay |-> RetryDelayMs, elapsed |-> 0],
                            [delay |-> RetryDelayMs, elapsed |-> 0]>>
  /\ running' = running
  /\ errorArmed' = errorArmed

\* db.on("error", err => { log; log("Trying again"); setTimeout(() => conn(), 5000) })
\* on: the listener stays registered.
OnError ==
  /\ retryLogs' = retryLogs + 1
  /\ timers' = Append(timers, [delay |-> RetryDelayMs, elapsed |-> 0])
  /\ running' = running
  /\ errorArmed' = errorArmed

\* Variant of OnOpen: registered with on, the listener stays.
OnOpenEveryTime ==
  /\ connectedLogs' = connectedLogs + 1
  /\ openArmed' = TRUE

\* db.once("open", () => console.log("Successfully connected to mongo"))
\* once: the listener is removed when it runs.
OnOpen ==
  /\ connectedLogs' = connectedLogs + 1
  /\ openArmed' = FALSE

\* The connection emits 'error': the attempt in flight failed, or the open
\* connection was lost.  The registered listener runs.
ConnError ==
  /\ running
  /\ errorArmed
  /\ connState \in {"CONNECTING", "CONNECTED"}
  /\ ~storeReachable
  /\ errorEvents < MaxErrors
  /\ errorEvents' = errorEvents + 1
  /\ connState' = "DISCONNECTED"
  /\ OnError
  /\ UNCHANGED <<starts, storeReachable, store, openArmed, attempts,
                 openSignals, connectedLogs, listenState, seedState, requests>>
  /\ UNCHANGED extraVars

\* The connection emits 'open': the attempt in flight succeeded.  The
\* once-listener runs if it is still registered.
ConnOpen ==
  /\ running
  /\ connState = "CONNECTING"
  /\ storeReachable
  /\ connState' = "CONNECTED"
  /\ openSignals' = openSignals + 1
  /\ IF openArmed THEN OnOpen ELSE UNCHANGED <<connectedLogs, openArmed>>
  /\ UNCHANGED <<running, starts, storeReachable, store, errorArmed, timers,
                 attempts, errorEvents, retryLogs, listenState, seedState, requests>>
  /\ UNCHANGED extraVars

\* A timer is due once its delay has elapsed.
Due(t) == t.elapsed >= t.delay

\* Variant of TimerFire: the callback runs before the delay has elapsed.
TimerFireEarly(i) ==
  /\ running
  /\ timers' = RemoveAt(timers, i)
  /\ UNCHANGED <<running, starts, storeReachable, store, errorArmed, openArmed,
                 errorEvents, openSignals, connectedLogs, retryLogs, listenState,
                 seedState, requests, savedLogs, env, port, mongoUri, signalled, App>>
  /\ conn

\* Variant of TimerFire: setInterval, the timer is armed again when it fires.
TimerFireInterval(i) ==
  /\ running
  /\ Due(timers[i])
  /\ timers' = [timers EXCEPT ![i].elapsed = 0]
  /\ UNCHANGED <<running, starts, storeReachable, store, errorArmed, openArmed,
                 errorEvents, openSignals, connectedLogs, retryLogs, listenState,
                 seedState, requests, savedLogs, env, port, mongoUri, signalled, App>>
  /\ conn

\* Variant of TimerFire: the callback names conn and does not call it.
TimerFireNoCall(i) ==
  /\ running
  /\ Due(timers[i])
  /\ timers' = RemoveAt(timers, i)
  /\ UNCHANGED <<running, starts, storeReachable, store, errorArmed, openArmed,
                 errorEvents, openSignals, connectedLogs, retryLogs, listenState,
                 seedState, requests, savedLogs, env, port, mongoUri, signalled, App>>
  /\ UNCHANGED <<attempts, connState, lastUri>>

\* The event loop runs a due timer: () => conn()
TimerFire(i) ==
  /\ running
  /\ Due(timers[i])
  /\ timers' = RemoveAt(timers, i)
  /\ UNCHANGED <<running, starts, storeReachable, store, errorArmed, openArmed,
                 errorEvents, openSignals, connectedLogs, retryLogs, listenState,
                 seedState, requests, savedLogs, env, port, mongoUri, signalled, App>>
  /\ conn

\* Time passes for every pending timer.
Tick ==
  /\ running
  /\ \E i \in 1..Len(timers) : ~Due(timers[i])
  /\ timers' = [i \in 1..Len(timers) |->
                  [timers[i] EXCEPT !.elapsed = Min(@ + TickMs, RetryDelayMs)]]
  /\ UNCHANGED <<running, starts, storeReachable, store, connState, errorArmed,
                 openArmed, attempts, errorEvents, openSignals, connectedLogs,
                 retryLogs, listenState, seedState, requests>>
  /\ UNCHANGED extraVars

\* ------------------------------------------------------------ HTTP server

\* Variant of ListenReady: the listener is bound once the connection is open.
ListenReadyAfterOpen ==
  /\ running
  /\ listenState = "binding"
  /\ connState = "CONNECTED"
  /\ listenState' = "listening"
  /\ UNCHANGED <<running, starts, storeReachable, store, connVars, seedState, requests>>
  /\ UNCHANGED extraVars

\* app.listen(port, ...): the listener is bound by the event loop after the
\* script; nothing in it looks at the database connection.
ListenReady ==
  /\ running
  /\ listenState = "binding"
  /\ listenState' = "listening"
  /\ UNCHANGED <<running, starts, storeReachable, store, connVars, seedState, requests>>
  /\ UNCHANGED extraVars

\* Template literal of the response body.
Greeting(name) == GreetingPrefix \o name

\* app.get("/welcome", async (req, res) => { log;  const user = await User.find().exec();
\* the handler runs up to its await: the query is issued.
WelcomeReceived(r) ==
  requests' = [requests EXCEPT ![r].state = "querying", ![r].early = (openSignals = 0)]

\* Variant of WelcomeResume: greets with the last record instead of the first.
WelcomeResumeLast(r, user) ==
  requests' = [requests EXCEPT ![r] =
    IF Len(user) = 0
    THEN [@ EXCEPT !.state = "fault", !.early = FALSE, !.err = "TypeError"]
    ELSE [@ EXCEPT !.state = "responded", !.early = FALSE,
                   !.res = [status |-> StatusOk, body |-> Greeting(user[Len(user)])]]]

\* Variant of WelcomeResume: an empty result is greeted too (user[0]?.name).
WelcomeResumeUndefined(r, user) ==
  requests' = [requests EXCEPT ![r] =
    [@ EXCEPT !.state = "responded", !.early = FALSE,
              !.res = [status |-> StatusOk,
                       body |-> Greeting(IF Len(user) = 0 THEN "undefined" ELSE user[1])]]]

\* ... console.log(user[0].name); res.send(`Hello Client! ... ${user[0].name}`) })
\* the handler resumes with the query's result; user[0] of an empty result is
\* undefined and reading its name throws, which rejects the handler's promise
\* before res.send is reached.
WelcomeResume(r, user) ==
  requests' = [requests EXCEPT ![r] =
    IF Len(user) = 0
    THEN [@ EXCEPT !.state = "fault", !.early = FALSE, !.err = "TypeError"]
    ELSE [@ EXCEPT !.state = "responded", !.early = FALSE,
                   !.res = [status |-> StatusOk, body |-> Greeting(user[1])]]]

\* await of a rejected query: the handler's promise is rejected, there is no
\* try/catch and no res call on this path.
WelcomeRejected(r) ==
  requests' = [requests EXCEPT ![r].state = "fault", ![r].early = FALSE,
                               ![r].err = "QueryError"]

\* Variant of RequestArrives: no request is dispatched while a retry is
\* awaited or an attempt is in flight (the wait blocks the event loop).
RequestArrivesUnlessRetrying(r) ==
  /\ running
  /\ listenState = "listening"
  /\ Len(timers) = 0
  /\ connState # "CONNECTING"
  /\ requests[r].state = "idle"
  /\ \A q \in ReqIds : q < r => requests[q].state # "idle"
  /\ WelcomeReceived(r)
  /\ UNCHANGED <<running, starts, storeReachable, store, connVars, listenState, seedState>>
  /\ UNCHANGED extraVars

\* A client sends GET /welcome and the listener dispatches it to the route.
RequestArrives(r) ==
  /\ running
  /\ listenState = "listening"
  /\ requests[r].state = "idle"
  /\ \A q \in ReqIds : q < r => requests[q].state # "idle"
  /\ WelcomeReceived(r)
  /\ UNCHANGED <<running, starts, storeReachable, store, connVars, listenState, seedState>>
  /\ UNCHANGED extraVars

\* Variant of QueryDone: the query is answered without an open connection.
QueryDoneUnconnected(r) ==
  /\ running
  /\ requests[r].state = "querying"
  /\ WelcomeResume(r, store)
  /\ UNCHANGED <<running, starts, storeReachable, store, connVars, listenState, seedState>>
  /\ UNCHANGED extraVars

\* Variant of QueryDone: the result of an earlier query is kept and used
\* again (an earlier empty result is served to the requests after it).
QueryDoneCached(r) ==
  /\ running
  /\ requests[r].state = "querying"
  /\ connState = "CONNECTED"
  /\ WelcomeResume(r, IF \E q \in ReqIds : requests[q].err = "TypeError"
                      THEN <<>> ELSE store)
  /\ UNCHANGED <<running, starts, storeReachable, store, connVars, listenState, seedState>>
  /\ UNCHANGED extraVars

\* The store answers the query.  mongoose holds a query issued while the
\* connection is not open until it opens.
QueryDone(r) ==
  /\ running
  /\ requests[r].state = "querying"
  /\ connState = "CONNECTED"
  /\ WelcomeResume(r, store)
  /\ UNCHANGED <<running, starts, storeReachable, store, connVars, listenState, seedState>>
  /\ UNCHANGED extraVars

\* Variant of QueryFail: the handler reconnects when its query is rejected.
QueryFailReconnects(r) ==
  /\ running
  /\ requests[r].state = "querying"
  /\ WelcomeRejected(r)
  /\ UNCHANGED <<running, starts, storeReachable, store, errorArmed, openArmed,
                 timers, errorEvents, openSignals, connectedLogs, retryLogs,
                 listenState, seedState>>
  /\ UNCHANGED <<savedLogs, env, port, mongoUri, signalled, App>>
  /\ conn

\* The query is rejected (the driver reports an error, or gives up waiting
\* for a connection).
QueryFail(r) ==
  /\ running
  /\ requests[r].state = "querying"
  /\ WelcomeRejected(r)
  /\ UNCHANGED <<running, starts, storeReachable, store, connVars, listenState, seedState>>
  /\ UNCHANGED extraVars

\* ------------------------------------------------------------------ seed

\* Variant of SeedSaved: the seed is written only when the store has none.
SeedSavedIfAbsent ==
  /\ running
  /\ seedState = "pending"
  /\ connState = "CONNECTED"
  /\ store' = IF \E i \in 1..Len(store) : store[i] = SeedName
               THEN store ELSE Append(store, SeedName)
  /\ seedState' = "saved"
  /\ savedLogs' = savedLogs + 1
  /\ UNCHANGED <<running, starts, storeReachable, connVars, listenState, requests>>
  /\ UNCHANGED <<env, port, mongoUri, lastUri, signalled, App>>

\* Variant of SeedSaved: the seed replaces the first record (an update).
SeedSavedUpsert ==
  /\ running
  /\ seedState = "pending"
  /\ connState = "CONNECTED"
  /\ store' = IF Len(store) = 0 THEN <<SeedName>> ELSE [store EXCEPT ![1] = SeedName]
  /\ seedState' = "saved"
  /\ savedLogs' = savedLogs + 1
  /\ UNCHANGED <<running, starts, storeReachable, connVars, listenState, requests>>
  /\ UNCHANGED <<env, port, mongoUri, lastUri, signalled, App>>

\* Variant of SeedSaved: a write issued before a failed attempt is dropped
\* with that attempt instead of being held until the connection opens.
SeedSavedUnlessRetried ==
  /\ running
  /\ seedState = "pending"
  /\ connState = "CONNECTED"
  /\ errorEvents = 0
  /\ store' = Append(store, SeedName)
  /\ seedState' = "saved"
  /\ savedLogs' = savedLogs + 1
  /\ UNCHANGED <<running, starts, storeReachable, connVars, listenState, requests>>
  /\ UNCHANGED <<env, port, mongoUri, lastUri, signalled, App>>

\* user.save().then(user => console.log(`${user.name} saved to the database`))
\* the write is held until the connection is open, then appended.
SeedSaved ==
  /\ running
  /\ seedState = "pending"
  /\ connState = "CONNECTED"
  /\ store' = Append(store, SeedName)
  /\ seedState' = "saved"
  /\ savedLogs' = savedLogs + 1
  /\ UNCHANGED <<running, starts, storeReachable, connVars, listenState, requests>>
  /\ UNCHANGED <<env, port, mongoUri, lastUri, signalled, App>>

\* Variant of SeedFailed: the failed seed write ends the process.
SeedFailedFatal ==
  /\ running
  /\ seedState = "pending"
  /\ seedState' = "failed"
  /\ running' = FALSE
  /\ UNCHANGED <<starts, storeReachable, store, connVars, listenState, requests>>
  /\ UNCHANGED extraVars

\* .catch(err => console.log(err))
SeedFailed ==
  /\ running
  /\ seedState = "pending"
  /\ seedState' = "failed"
  /\ UNCHANGED <<running, starts, storeReachable, store, connVars, listenState, requests>>
  /\ UNCHANGED extraVars

\* ------------------------------------------------------------- lifecycle

\* process.env.X || d: d when X is unset or set to the empty string.
OrDefault(setting, d) ==
  IF setting.set /\ setting.value # "" THEN setting.value ELSE d

\* The top-level script, run to its end: port and mongoUri from the
\* environment; conn(); db.on("error"); db.once("open");
\* app.get("/welcome"); new User({name: "Big Bill Brown"}).save(); app.listen(port).
Startup ==
  /\ ~running
  /\ starts < MaxStarts
  /\ running' = TRUE
  /\ starts' = starts + 1
  /\ port' = OrDefault(env.PORT, ToString(DefaultPort))
  /\ mongoUri' = OrDefault(env.MONGO_URI, DefaultMongoUri)
  /\ conn
  /\ errorArmed' = TRUE
  /\ openArmed' = TRUE
  /\ seedState' = "pending"
  /\ listenState' = "binding"
  /\ UNCHANGED <<storeReachable, store, timers, errorEvents, openSignals,
                 connectedLogs, retryLogs, requests, savedLogs, env, signalled, App>>

\* The process is ended from outside (a signal): everything it held in
\* memory is gone (its handlers and their requests too), the store keeps its
\* documents.
Shutdown ==
  /\ running
  /\ running' = FALSE
  /\ connState' = "DISCONNECTED"
  /\ errorArmed' = FALSE
  /\ openArmed' = FALSE
  /\ timers' = <<>>
  /\ attempts' = 0
  /\ errorEvents' = 0
  /\ openSignals' = 0
  /\ connectedLogs' = 0
  /\ retryLogs' = 0
  /\ listenState' = "closed"
  /\ seedState' = "none"
  /\ requests' = [r \in ReqIds |-> IdleRequest]
  /\ port' = ""
  /\ mongoUri' = ""
  /\ lastUri' = ""
  /\ signalled' = FALSE
  /\ UNCHANGED <<starts, storeReachable, store, savedLogs, env, App>>

\* A shutdown signal (SIGTERM, SIGINT) is delivered to the process.  The
\* script registers no handler for it, so the platform's default applies: the
\* process ends (Shutdown), or, for node running as process 1 of its
\* container (CMD ["node", "server.js"]), nothing happens.
SignalIgnored ==
  /\ running
  /\ ~signalled
  /\ signalled' = TRUE
  /\ UNCHANGED <<running, starts, storeReachable, store, connVars, listenState,
                 seedState, requests, savedLogs, env, port, mongoUri, lastUri, App>>

\* Environment: the store becomes reachable or unreachable.
StoreFlip ==
  /\ storeReachable' = ~storeReachable
  /\ UNCHANGED <<running, starts, store, connVars, listenState, seedState, requests>>
  /\ UNCHANGED extraVars

\* ----------------------------------------------------- client component

\* componentDidMount: const res = await axios.get("/welcome"), with the
\* listener bound: the request is sent and the route receives it.
componentDidMount(r) ==
  /\ App.get = "unmounted"
  /\ running
  /\ listenState = "listening"
  /\ requests[r].state = "idle"
  /\ \A q \in ReqIds : q < r => requests[q].state # "idle"
  /\ WelcomeReceived(r)
  /\ App' = [App EXCEPT !.get = "pending", !.req = r]
  /\ UNCHANGED <<running, starts, storeReachable, store, connVars, listenState, seedState>>
  /\ UNCHANGED <<savedLogs, env, port, mongoUri, lastUri, signalled>>

\* Variant of AxiosRejected: the catch block shows the failure in welcome.
AxiosRejectedShown ==
  /\ App.get = "pending" \/ (App.get = "unmounted" /\ listenState # "listening")
  /\ App.req # 0 => requests[App.req].state # "responded"
  /\ App' = [App EXCEPT !.get = "rejected", !.logged = "error",
                         !.welcome = GreetingPrefix \o OtherName]
  /\ UNCHANGED <<running, starts, storeReachable, store, connVars, listenState,
                 seedState, requests>>
  /\ UNCHANGED <<savedLogs, env, port, mongoUri, lastUri, signalled>>

\* } catch (error) { console.log(error); }
\* axios.get rejects: nothing listens on the port (the request is refused),
\* or the request was received and no response came (the handler ended in a
\* fault, the query is still waiting when the request times out, or the
\* process ended).
AxiosRejected ==
  /\ App.get = "pending" \/ (App.get = "unmounted" /\ listenState # "listening")
  /\ App.req # 0 => requests[App.req].state # "responded"
  /\ App' = [App EXCEPT !.get = "rejected", !.logged = "error"]
  /\ UNCHANGED <<running, starts, storeReachable, store, connVars, listenState,
                 seedState, requests>>
  /\ UNCHANGED <<savedLogs, env, port, mongoUri, lastUri, signalled>>

\* console.log(res); this.setState({ welcome: res.data });
\* axios.get resolves with the response (the server only ever answers 200);
\* res.data is the text of the body.
AxiosResolved ==
  /\ App.get = "pending"
  /\ requests[App.req].state = "responded"
  /\ requests[App.req].res.status = StatusOk
  /\ App' = [App EXCEPT !.get = "resolved", !.logged = "res",
                         !.welcome = requests[App.req].res.body]
  /\ UNCHANGED <<running, starts, storeReachable, store, connVars, listenState,
                 seedState, requests>>
  /\ UNCHANGED <<savedLogs, env, port, mongoUri, lastUri, signalled>>

Next ==
  \/ Startup
  \/ Shutdown
  \/ StoreFlip
  \/ ConnError
  \/ ConnOpen
  \/ \E i \in 1..Len(timers) : TimerFire(i)
  \/ Tick
  \/ ListenReady
  \/ \E r \in ReqIds : RequestArrives(r)
  \/ \E r \in ReqIds : QueryDone(r)
  \/ \E r \in ReqIds : QueryFail(r)
  \/ SeedSaved
  \/ SeedFailed

Spec == Init /\ [][Next]_vars

\* The event loop of a running process runs what is ready: time passes, a due
\* timer's callback runs, the listener gets bound, and an attempt against a
\* reachable store completes.  Nothing obliges the environment to fail,
\* to flip the store, to send requests or to stop the process.
Fairness ==
  /\ WF_vars(Tick)
  /\ WF_vars(\E i \in 1..Len(timers) : TimerFire(i))
  /\ WF_vars(ListenReady)
  /\ WF_vars(ConnOpen)

FairSpec == Spec /\ Fairness

\* The store client performs what it holds: over an open connection the held
\* seed write is carried out and a waiting query is answered.
StoreFairness ==
  /\ WF_vars(SeedSaved)
  /\ \A r \in ReqIds : WF_vars(QueryDone(r))

FairStoreSpec == FairSpec /\ StoreFairness

\* The connection supervisor and the listener, without HTTP traffic and
\* without the seed write, in every setting of the environment and with
\* shutdown signals delivered.
SupervisorNext ==
  \/ Startup
  \/ Shutdown
  \/ SignalIgnored
  \/ StoreFlip
  \/ ConnError
  \/ ConnOpen
  \/ \E i \in 1..Len(timers) : TimerFire(i)
  \/ Tick
  \/ ListenReady

SupervisorSpec == InitAnyEnv /\ [][SupervisorNext]_vars

FairSupervisorSpec == SupervisorSpec /\ Fairness

\* The server with one client component as its only source of requests.
ClientNext ==
  \/ Startup
  \/ Shutdown
  \/ StoreFlip
  \/ ConnError
  \/ ConnOpen
  \/ \E i \in 1..Len(timers) : TimerFire(i)
  \/ Tick
  \/ ListenReady
  \/ \E r \in ReqIds : QueryDone(r)
  \/ \E r \in ReqIds : QueryFail(r)
  \/ SeedSaved
  \/ SeedFailed
  \/ \E r \in ReqIds : componentDidMount(r)
  \/ AxiosResolved
  \/ AxiosRejected

ClientSpec == Init /\ [][ClientNext]_vars

\* ================================================================ claims

\* ---------------------------------------------------------------- C1
\* C1: every 'error' event schedules exactly one retry timer, with the
\* delay of RetryDelayMs, and starts no attempt itself; every call of conn
\* after the first one of a run is made by such a timer, no earlier than
\* RetryDelayMs after the failure that scheduled it; so a run never has made
\* more attempts than one plus its failures.
C1_FailureSchedulesOneRetry ==
  (errorEvents' = errorEvents + 1) =>
     /\ Len(timers') = Len(timers) + 1
     /\ timers'[Len(timers')] = [delay |-> RetryDelayMs, elapsed |-> 0]
     /\ \A i \in 1..Len(timers) : timers'[i] = timers[i]
     /\ attempts' = attempts

C1_RetryOnlyAfterDelay ==
  (running /\ attempts' = attempts + 1) =>
     \E i \in 1..Len(timers) :
        /\ timers[i].elapsed >= RetryDelayMs
        /\ timers' = RemoveAt(timers, i)

C1_RetryAfterDelay ==
  /\ [][C1_FailureSchedulesOneRetry /\ C1_RetryOnlyAfterDelay]_vars
  /\ [](running => attempts + Len(timers) = 1 + errorEvents)

\* A second retry has started: two failures, each followed by its delay.
C1_Witness == running /\ errorEvents = 2 /\ attempts = 3 /\ connState = "CONNECTING"

\* ---------------------------------------------------------------- C2
\* C2: the supervisor never gives up: whenever the connection of a running
\* process is down after a failure, a retry timer is pending; and for every
\* n, once n attempts have failed an (n+1)-th attempt is eventually made
\* (unless the process is stopped first).
C2_NeverGivenUp ==
  (running /\ connState = "DISCONNECTED") => Len(timers) >= 1

C2_NoMaxRetryCount ==
  /\ []C2_NeverGivenUp
  /\ \A n \in 1..MaxErrors :
       (running /\ errorEvents = n) ~> (attempts >= n + 1 \/ ~running)

\* The last failure the bound allows has happened and was retried.
C2_Witness == running /\ errorEvents = MaxErrors /\ attempts = MaxErrors + 1

\* ---------------------------------------------------------------- C3
\* C3: from any point from which the store stays reachable and the process
\* stays up, the connection is CONNECTED at that point or later, however
\* many attempts failed before.
C3_EventuallyConnects ==
  []([](storeReachable /\ running) => <>(connState = "CONNECTED"))

\* Connected for the first time after failed attempts.
C3_Witness ==
  running /\ errorEvents >= 2 /\ openSignals = 1 /\ connState = "CONNECTED"

\* ---------------------------------------------------------------- C4
\* C4: the success line is logged exactly once, on the first 'open' of a
\* run, and no later 'open' logs it again.
C4_ConnectedLoggedOnce ==
  connectedLogs = IF openSignals >= 1 THEN 1 ELSE 0

\* A second 'open' (a reconnect after a lost connection) has been seen.
C4_Witness == openSignals >= 2 /\ connectedLogs = 1

\* ---------------------------------------------------------------- C5
\* C5: a connection failure is not fatal and is not surfaced to a caller: the
\* step that handles an 'error' event leaves the process running, the
\* listener as it was and every request untouched; it only logs and arms a
\* retry.
C5_FailureStep ==
  (errorEvents' = errorEvents + 1) =>
     /\ running'
     /\ listenState' = listenState
     /\ requests' = requests
     /\ retryLogs' = retryLogs + 1
     /\ Len(timers') = Len(timers) + 1

C5_FailureNeverFatal == [][C5_FailureStep]_vars

\* Failures happened while the process listens and holds an open request.
C5_Witness ==
  /\ running /\ errorEvents = MaxErrors /\ openSignals = 0
  /\ listenState = "listening"
  /\ \E r \in ReqIds : requests[r].state = "querying"

\* ---------------------------------------------------------------- C6
\* C6: the start-up script always asks for the listener, whatever the
\* connection does; a bound listener accepts a request in every connection
\* state; and the listener of a process that stays up is eventually bound,
\* also when the connection never opens.
C6_AcceptsWhenListening ==
  (listenState = "listening" /\ \E r \in ReqIds : requests[r].state = "idle")
     => ENABLED (\E r \in ReqIds : RequestArrives(r))

C6_ListenIndependentOfConnection ==
  /\ [](running => listenState # "closed")
  /\ []C6_AcceptsWhenListening
  /\ (listenState = "binding") ~> (listenState = "listening" \/ ~running)

\* A request was accepted by a process that has never been connected.
C6_Witness ==
  /\ running /\ listenState = "listening"
  /\ openSignals = 0 /\ errorEvents >= 1 /\ connState = "DISCONNECTED"
  /\ \E r \in ReqIds : requests[r].state = "querying"

\* The step in which the query of request r returns its result to the handler.
QueryReturns(r) ==
  /\ requests[r].state = "querying"
  /\ requests'[r].state # "querying"
  /\ requests'[r].err # "QueryError"
  /\ running'

\* ---------------------------------------------------------------- C7
\* C7: when the query of a /welcome request returns at least one record, the
\* request is answered 200 with the greeting for the name of the first record
\* returned, whatever the number of further records; for a first record
\* "Big Bill Brown" the body is the sentence of the specification.
C7_Step ==
  \A r \in ReqIds :
    (QueryReturns(r) /\ Len(store) >= 1) =>
       /\ requests'[r].state = "responded"
       /\ requests'[r].err = "none"
       /\ requests'[r].res.status = 200
       /\ requests'[r].res.body =
            "Hello Client! There is one record in the database for " \o store[1]
       /\ (store[1] = "Big Bill Brown" =>
             requests'[r].res.body =
               "Hello Client! There is one record in the database for Big Bill Brown")

C7_WelcomeGreetsFirstRecord == [][C7_Step]_vars

\* A request of the second run, answered from a store of two records (the
\* seed of the first run is the second one) with the name of the first.
C7_Witness ==
  /\ starts = 2 /\ seedState = "pending" /\ store = <<OtherName, SeedName>>
  /\ \E r \in ReqIds :
       /\ requests[r].state = "responded"
       /\ requests[r].res.body =
            "Hello Client! There is one record in the database for Ada Lovelace"

\* ---------------------------------------------------------------- C8
\* C8: when the query of a /welcome request returns no record, the handler
\* ends in a fault without having sent anything, and nothing is sent for
\* that request afterwards.
C8_Step ==
  \A r \in ReqIds :
    /\ (QueryReturns(r) /\ Len(store) = 0) =>
          /\ requests'[r].state = "fault"
          /\ requests'[r].res = NoResponse
    /\ (requests[r].state = "fault" /\ running') => requests'[r] = requests[r]

C8_EmptyStoreFails ==
  /\ [][C8_Step]_vars
  /\ [](\A r \in ReqIds : requests[r].state = "fault" => requests[r].res = NoResponse)

\* A request whose query returned an empty result: reading user[0].name threw.
C8_Witness ==
  \E r \in ReqIds :
    requests[r].state = "fault" /\ requests[r].err = "TypeError" /\ store = <<>>

\* ---------------------------------------------------------------- C9
\* C9: a /welcome request whose query failed or returned no record is
\* answered with a server error.
C9_FaultAnsweredWithServerError ==
  \A r \in ReqIds : requests[r].state = "fault" => requests[r].res.status >= 500

\* ---------------------------------------------------------------- C10
\* C10 as claimed: a request whose query is waiting since before the first
\* successful connection is never answered with success.
C10_EarlyRequestNeverSucceeds ==
  [][\A r \in ReqIds :
       (requests[r].state = "querying" /\ requests[r].early)
          => requests'[r].state # "responded"]_vars

\* C10 as amended: no request is answered with success while the connection
\* has not been established: none is in a run that has seen no 'open', and
\* every success response is sent while the connection is CONNECTED.
C10_SuccessStep ==
  \A r \in ReqIds :
    (requests[r].state # "responded" /\ requests'[r].state = "responded")
       => connState = "CONNECTED"

C10_NoSuccessBeforeConnected ==
  /\ [][C10_SuccessStep]_vars
  /\ [](openSignals = 0 => \A r \in ReqIds : requests[r].state # "responded")

\* A request that arrived before the first 'open', through a failed attempt,
\* is still waiting for its query when the connection is established.
C10_Witness ==
  /\ connState = "CONNECTED" /\ errorEvents >= 1 /\ openSignals = 1
  /\ \E r \in ReqIds : requests[r].state = "querying" /\ requests[r].early

\* ---------------------------------------------------------------- C11
\* C11: every successful seed write appends one more "Big Bill Brown" record,
\* whether or not the store already holds one: the store holds as many seed
\* records as seed writes succeeded, so after N starts whose seed writes all
\* succeeded it holds N of them.
CountOf(seq, x) == Cardinality({i \in 1..Len(seq) : seq[i] = x})

C11_SeedCount ==
  /\ CountOf(store, "Big Bill Brown") = savedLogs
  /\ savedLogs <= starts
  /\ (seedState = "saved" => CountOf(store, "Big Bill Brown") >= 1)

C11_SeedStep ==
  (savedLogs' = savedLogs + 1) => store' = Append(store, "Big Bill Brown")

C11_SeedPerStart == []C11_SeedCount /\ [][C11_SeedStep]_vars

\* Two starts, two successful seed writes, two seed records.
C11_Witness ==
  starts = 2 /\ savedLogs = 2 /\ CountOf(store, "Big Bill Brown") = 2

\* ---------------------------------------------------------------- C12
\* C12: a failed seed write is only logged: the step leaves the process
\* running and the listener, the store and the connection as they were; the
\* listener can still be bound afterwards; the write is issued by the start-up
\* script only (never by a retry) and a failed one stays failed for the run.
C12_Step ==
  /\ (seedState = "pending" /\ seedState' = "failed") =>
        /\ running'
        /\ listenState' = listenState
        /\ store' = store
        /\ connState' = connState /\ timers' = timers /\ attempts' = attempts
  /\ (seedState # "pending" /\ seedState' = "pending") => (~running /\ running')
  /\ (seedState = "failed" /\ running') => seedState' = "failed"

C12_ListenAfterFailure ==
  (running /\ seedState = "failed" /\ listenState = "binding") => ENABLED ListenReady

C12_SeedFailureOnlyLogged == [][C12_Step]_vars /\ []C12_ListenAfterFailure

\* The seed write failed, the listener got bound, the connection was retried.
C12_Witness ==
  running /\ seedState = "failed" /\ listenState = "listening" /\ attempts >= 2

\* ---------------------------------------------------------------- C13
\* C13: every step keeps the records already stored, in place and unchanged;
\* the store only changes by the seed write appending a record; a step that
\* changes a request (a /welcome handler running) leaves the store unchanged.
IsPrefix(a, b) == Len(a) <= Len(b) /\ \A i \in 1..Len(a) : a[i] = b[i]

C13_Step ==
  /\ IsPrefix(store, store')
  /\ (store' # store => savedLogs' = savedLogs + 1)
  /\ (requests' # requests => store' = store)

C13_NoUpdateNoDelete == [][C13_Step]_vars

\* A foreign record and two seeds are stored and a request has been answered.
C13_Witness ==
  /\ store = <<OtherName, SeedName, SeedName>>
  /\ \E r \in ReqIds : requests[r].state = "responded"

\* ---------------------------------------------------------------- C14
\* C14 as claimed: the port is the value of PORT whenever PORT is set, and
\* the descriptor the value of MONGO_URI whenever MONGO_URI is set.
C14_ValueWheneverSet ==
  running =>
    /\ (env.PORT.set => port = env.PORT.value)
    /\ (env.MONGO_URI.set => mongoUri = env.MONGO_URI.value)

\* C14 as amended: the port is the value of PORT when PORT is set to a
\* non-empty string and 4000 when it is unset or empty; the descriptor is the
\* value of MONGO_URI when set to a non-empty string and
\* mongodb://localhost:27017/test when unset or empty; and every call of
\* conn, the first and every retry, connects to that descriptor.
C14_ExpectedPort ==
  CASE env.PORT = Unset -> "4000"
    [] env.PORT = EnvSet("") -> "4000"
    [] env.PORT = EnvSet("8080") -> "8080"

C14_ExpectedUri ==
  CASE env.MONGO_URI = Unset -> "mongodb://localhost:27017/test"
    [] env.MONGO_URI = EnvSet("") -> "mongodb://localhost:27017/test"
    [] env.MONGO_URI = EnvSet("mongodb://db:27017/db") -> "mongodb://db:27017/db"

C14_Configured ==
  running =>
    /\ port = C14_ExpectedPort
    /\ mongoUri = C14_ExpectedUri
    /\ lastUri = C14_ExpectedUri

C14_AttemptStep ==
  (attempts' = attempts + 1) => lastUri' = C14_ExpectedUri

C14_ConfigurationDefaults == []C14_Configured /\ [][C14_AttemptStep]_vars

\* Both variables set, the listener bound, and a second retry under way.
C14_Witness ==
  /\ running /\ listenState = "listening" /\ attempts = 3
  /\ env = [PORT |-> EnvSet("8080"), MONGO_URI |-> EnvSet("mongodb://db:27017/db")]
  /\ port = "8080" /\ lastUri = "mongodb://db:27017/db"

\* ---------------------------------------------------------------- C15
\* C15 as claimed: the connection state of a process changes only from
\* DISCONNECTED to CONNECTING, from CONNECTING to CONNECTED and from
\* CONNECTING to DISCONNECTED.
C15_ListedTransition ==
  \/ connState' = connState
  \/ connState = "DISCONNECTED" /\ connState' = "CONNECTING"
  \/ connState = "CONNECTING" /\ connState' = "CONNECTED"
  \/ connState = "CONNECTING" /\ connState' = "DISCONNECTED"
  \/ ~running'

C15_OnlyListedTransitions == [][C15_ListedTransition]_vars

\* C15 as amended: the state is always one of the three and changes only by:
\* DISCONNECTED to CONNECTING when conn is called (by the start-up script,
\* or by a retry timer whose delay has elapsed); CONNECTING to CONNECTED on
\* 'open'; CONNECTING or CONNECTED to DISCONNECTED on an 'error' event.
C15_Transition ==
  \/ connState' = connState
  \/ /\ connState = "DISCONNECTED" /\ connState' = "CONNECTING"
     /\ attempts' = attempts + 1
     /\ running => \E i \in 1..Len(timers) :
                      timers[i].elapsed >= RetryDelayMs /\ timers' = RemoveAt(timers, i)
  \/ /\ connState = "CONNECTING" /\ connState' = "CONNECTED"
     /\ openSignals' = openSignals + 1
  \/ /\ connState \in {"CONNECTING", "CONNECTED"} /\ connState' = "DISCONNECTED"
     /\ errorEvents' = errorEvents + 1
  \/ ~running'

C15_StateMachine ==
  /\ [](connState \in {"DISCONNECTED", "CONNECTING", "CONNECTED"})
  /\ [][C15_Transition]_vars

\* The connection was open and an 'error' event took it down.
C15_Witness ==
  /\ running /\ connState = "DISCONNECTED"
  /\ openSignals = 1 /\ errorEvents = 1 /\ attempts = 1 /\ Len(timers) = 1

\* ---------------------------------------------------------------- C16
\* C16 as claimed: once the connection has succeeded, no further attempt is
\* started and no further retry timer is scheduled.
C16_NothingAfterSuccess ==
  [][(openSignals >= 1 /\ running') =>
        (attempts' = attempts /\ Len(timers') <= Len(timers))]_vars

\* C16 as amended: while the connection is CONNECTED no retry timer is
\* pending and no attempt is started; the only step of the supervisor out of
\* CONNECTED is an 'error' event, which takes the connection down and
\* schedules one retry.
C16_ConnectedStep ==
  (connState = "CONNECTED" /\ running') =>
     /\ attempts' = attempts
     /\ \/ (timers' = timers /\ connState' = "CONNECTED")
        \/ /\ errorEvents' = errorEvents + 1
           /\ connState' = "DISCONNECTED"
           /\ Len(timers') = 1

C16_ConnectedUntilError ==
  /\ [][C16_ConnectedStep]_vars
  /\ [](connState = "CONNECTED" => Len(timers) = 0)

\* Connected again, through the retry that followed an 'error' after the
\* first success.
C16_Witness ==
  running /\ connState = "CONNECTED" /\ openSignals = 2 /\ attempts >= 2

\* ---------------------------------------------------------------- C17
\* C17: the 'error' listener of a running process is always registered;
\* every 'error' event, also one after the first 'open', logs "Trying
\* again" and schedules one conn() call after the delay; and an open
\* connection that loses its store can emit such an event.
C17_ErrorStep ==
  (errorEvents' = errorEvents + 1) =>
     /\ errorArmed'
     /\ retryLogs' = retryLogs + 1
     /\ timers' = Append(timers, [delay |-> RetryDelayMs, elapsed |-> 0])

C17_HandledWhenOpen ==
  (running /\ connState = "CONNECTED" /\ ~storeReachable /\ errorEvents < MaxErrors)
     => ENABLED ConnError

C17_ErrorHandlerStaysArmed ==
  /\ [](running => errorArmed)
  /\ [](running => retryLogs = errorEvents)
  /\ []C17_HandledWhenOpen
  /\ [][C17_ErrorStep]_vars

\* An 'error' after the first 'open' was logged and its retry has started.
C17_Witness ==
  /\ running /\ errorArmed /\ ~openArmed
  /\ openSignals = 1 /\ errorEvents = 1 /\ retryLogs = 1
  /\ attempts = 2 /\ connState = "CONNECTING"

\* ---------------------------------------------------------------- C18
\* C18: the attempts in flight and the pending retry timers are never more
\* than one together.
InFlight == IF connState = "CONNECTING" THEN 1 ELSE 0

C18_AtMostOneOutstanding == InFlight + Len(timers) <= 1

\* After as many failures as the bound allows, one timer is pending.
C18_Witness ==
  running /\ errorEvents = MaxErrors /\ Len(timers) = 1 /\ InFlight = 0

\* ---------------------------------------------------------------- C19
\* C19: a pending retry timer or an attempt in flight does not block
\* request handling: a request can be accepted whenever the listener is
\* bound and a client has one to send, a handler awaiting its query can be
\* resumed whatever the timers are, and the timer steps and the handler
\* steps interleave without touching each other's state.
Retrying == Len(timers) >= 1 \/ connState = "CONNECTING"

C19_AcceptsWhileRetrying ==
  (running /\ Retrying /\ listenState = "listening"
     /\ \E r \in ReqIds : requests[r].state = "idle")
     => ENABLED (\E r \in ReqIds : RequestArrives(r))

C19_CompletesWhileRetrying ==
  \A r \in ReqIds :
     (running /\ requests[r].state = "querying") =>
        /\ ENABLED QueryFail(r)
        /\ connState = "CONNECTED" => ENABLED QueryDone(r)

C19_Step ==
  running' =>
     /\ (requests' # requests) => UNCHANGED connVars
     /\ (timers' # timers \/ attempts' # attempts) => requests' = requests

C19_RetryDoesNotBlockRequests ==
  /\ []C19_AcceptsWhileRetrying
  /\ []C19_CompletesWhileRetrying
  /\ [][C19_Step]_vars

\* The connection has never opened in this run, a retry timer is part-way
\* through its delay, one request has been accepted and has run to its end
\* and another is awaiting its query.
C19_Witness ==
  /\ running /\ openSignals = 0 /\ errorEvents >= 1
  /\ Len(timers) = 1 /\ timers[1].elapsed > 0 /\ timers[1].elapsed < RetryDelayMs
  /\ requests[1].state = "fault"
  /\ requests[2].state = "querying"

\* ---------------------------------------------------------------- C20
\* C20 as claimed: a scheduled retry timer always fires and calls conn():
\* a pending timer goes away only by a conn() call.
C20_AlwaysFires ==
  [][Len(timers') < Len(timers) => attempts' = attempts + 1]_vars

\* C20 as amended: the script cancels no timer and handles no signal.  While
\* the process runs, a pending timer goes away only by firing, after its
\* delay, with a conn() call, and it does fire; a shutdown signal that the
\* platform does not act on changes nothing, and the retries go on after
\* it.  When the process ends, its pending timer ends with it.
C20_Step ==
  /\ (running' /\ timers' # timers /\ Len(timers') <= Len(timers)) =>
        \/ /\ attempts' = attempts + 1
           /\ \E i \in 1..Len(timers) : Due(timers[i]) /\ timers' = RemoveAt(timers, i)
        \/ /\ Len(timers') = Len(timers)
           /\ attempts' = attempts
           /\ \A i \in 1..Len(timers) : timers'[i].elapsed >= timers[i].elapsed
  /\ (signalled' /\ ~signalled) => UNCHANGED <<running, connVars>>
  /\ (~running' /\ running) => timers' = <<>>

C20_FiresWhileRunning ==
  \A k \in 1..(MaxErrors + 1) :
     (running /\ Len(timers) >= 1 /\ attempts = k) ~> (attempts > k \/ ~running)

C20_FiresAfterSignal ==
  \A k \in 1..(MaxErrors + 1) :
     (running /\ signalled /\ Len(timers) >= 1 /\ attempts = k)
        ~> ((signalled /\ attempts > k) \/ ~running)

C20_NoCancellationWhileRunning ==
  /\ [][C20_Step]_vars
  /\ C20_FiresWhileRunning
  /\ C20_FiresAfterSignal

\* A retry was made, and another is pending, after a shutdown signal.
C20_Witness ==
  /\ running /\ signalled
  /\ attempts >= 2 /\ Len(timers) = 1 /\ errorEvents = 2

\* ---------------------------------------------------------------- C21
\* C21: the process has one connection, and only the supervisor changes it:
\* a step of a /welcome handler (the request is received, its query returns
\* or is rejected) and the outcome of the start-up seed write leave the
\* connection state, the pending retry timers and the count of attempts as
\* they were.
C21_HandlerOrSeedStep ==
  /\ running /\ running'
  /\ \/ requests' # requests
     \/ seedState' # seedState
     \/ store' # store
     \/ savedLogs' # savedLogs

C21_Step ==
  C21_HandlerOrSeedStep =>
     /\ connState' = connState
     /\ timers' = timers
     /\ attempts' = attempts

C21_OnlySupervisorChangesConnection == [][C21_Step]_vars

\* With a retry pending after a failed attempt, the seed write has failed and
\* a request has been handled to its end: two attempts, one timer.
C21_Witness ==
  /\ running /\ connState = "DISCONNECTED"
  /\ attempts = 2 /\ errorEvents = 2 /\ Len(timers) = 1
  /\ seedState = "failed"
  /\ requests[1].state = "fault" /\ requests[2].state = "idle"

\* ---------------------------------------------------------------- C22
\* C22: nothing read from the store is kept between requests: the outcome
\* of a /welcome request is computed from the store as it is when its own
\* query returns, whatever the earlier and the other pending requests got,
\* and a step of one handler leaves every other request as it was.
C22_Step ==
  \A r \in ReqIds :
    /\ QueryReturns(r) =>
          IF Len(store) = 0
          THEN requests'[r].state = "fault" /\ requests'[r].res = NoResponse
          ELSE /\ requests'[r].state = "responded"
               /\ requests'[r].res =
                    [status |-> StatusOk, body |-> GreetingPrefix \o store[1]]
    /\ (running' /\ requests'[r] # requests[r]) =>
          \A q \in ReqIds \ {r} : requests'[q] = requests[q]

C22_NoCacheBetweenRequests == [][C22_Step]_vars

\* Two requests of one run with different outcomes: the first was queried
\* on an empty store, the second after the seed record was stored.
C22_Witness ==
  /\ running /\ seedState = "saved" /\ store = <<SeedName>>
  /\ requests[1].state = "fault" /\ requests[1].err = "TypeError"
  /\ requests[2].state = "responded"
  /\ requests[2].res.body = GreetingPrefix \o SeedName

\* ---------------------------------------------------------------- C23
\* C23: the seed write is issued by the start-up script, before the
\* connection is open, and not again in that run; it is held until the
\* connection is open; from any point from which the process stays up, the
\* store stays reachable and the write is not rejected, the seed record is
\* stored at that point or later, however many attempts failed before; and
\* a request whose query returns once a seed record is stored is answered
\* with success, which the waiting requests do get unless a query is
\* rejected.
C23_SeedStep ==
  /\ (seedState' = "pending" /\ seedState # "pending") =>
        (~running /\ running' /\ connState' = "CONNECTING" /\ openSignals' = 0)
  /\ (seedState' = "saved" /\ seedState # "saved") =>
        (seedState = "pending" /\ connState = "CONNECTED" /\ openSignals >= 1)
  /\ (running' /\ seedState \in {"saved", "failed"}) => seedState' = seedState

C23_HeldWriteCanBeDone ==
  (running /\ seedState = "pending" /\ connState = "CONNECTED") => ENABLED SeedSaved

C23_SeedEventuallyStored ==
  []([](running /\ storeReachable /\ seedState # "failed") => <>(seedState = "saved"))

C23_AnswerStep ==
  \A r \in ReqIds :
    (QueryReturns(r) /\ CountOf(store, SeedName) >= 1) =>
       /\ requests'[r].state = "responded"
       /\ requests'[r].res.status = StatusOk

NoQueryRejected == \A r \in ReqIds : requests[r].err # "QueryError"

NoQueryWaiting == \A r \in ReqIds : requests[r].state # "querying"

C23_RequestsEventuallyAnswered ==
  []((/\ [](running /\ storeReachable /\ NoQueryRejected)
      /\ seedState = "saved")
        => <>NoQueryWaiting)

C23_SeedStoredOnceConnected ==
  /\ [][C23_SeedStep]_vars
  /\ []C23_HeldWriteCanBeDone
  /\ C23_SeedEventuallyStored
  /\ [][C23_AnswerStep]_vars
  /\ C23_RequestsEventuallyAnswered

\* The seed record was stored after failed attempts and retries, and the
\* requests queried in that run were answered with success.
C23_Witness ==
  /\ running /\ errorEvents = MaxErrors /\ openSignals = 1
  /\ seedState = "saved" /\ store = <<SeedName>>
  /\ \A r \in ReqIds : requests[r].state = "responded"

\* ---------------------------------------------------------------- C24
\* C24: in the client component welcome is "..." until the GET /welcome
\* request succeeds; it changes only in the step in which the request
\* resolves, to the body of the response; a failed request is caught and
\* logged and leaves welcome at "...".
C24_Step ==
  /\ (App'.welcome # App.welcome) =>
        /\ App.get = "pending" /\ App'.get = "resolved"
        /\ requests[App.req].state = "responded"
        /\ App'.welcome = requests[App.req].res.body
  /\ (App'.get = "rejected" /\ App.get # "rejected") =>
        /\ App'.welcome = App.welcome
        /\ App'.logged = "error"

C24_WelcomeWhileNotResolved ==
  /\ App.get # "resolved" => App.welcome = "..."
  /\ App.get = "resolved" =>
        \E n \in Names :
           App.welcome = "Hello Client! There is one record in the database for " \o n

C24_WelcomeOnlyOnSuccess == [][C24_Step]_vars /\ []C24_WelcomeWhileNotResolved

\* The request was received by a running server and its handler ended in a
\* fault: the client's request failed and welcome is still "...".
C24_Witness ==
  /\ running /\ App.get = "rejected" /\ App.logged = "error" /\ App.welcome = "..."
  /\ App.req # 0 /\ requests[App.req].state = "fault"

====
